---- MODULE Spec2Model ----
(***************************************************************************)
(* Model of the request/response bridge of streamlit_app.py: the generator *)
(* process_client_request, the three backend adapters it drives, and the   *)
(* consumer that pulls the envelope sequence.                              *)
(*                                                                         *)
(* Python values are tagged records [t, v]: t is the Python/JSON type and  *)
(* v the value (a TLA+ function with string domain for a dict).            *)
(***************************************************************************)
EXTENDS Integers, Sequences, FiniteSets, TLC

VARIABLES
    request_str,      \* the argument of process_client_request
    pc,               \* where the generator frame is suspended
    request_id,       \* local request_id (UNBOUND until line 80 has run)
    request_type,     \* local request_type
    payload,          \* local payload
    response_header,  \* local response_header (UNBOUND until line 86 has run)
    adapter,          \* the backend generator / call driven by this frame
    out,              \* the strings the consumer has received, in order
    raised,           \* the exception that left the generator, or NoExc
    stops,            \* StopIterations the consumer has received
    clock,            \* wall clock read by datetime.now()/utcnow()
    uuid_count,       \* uuid4() calls made so far in this process
    self,             \* which invocation the variables above belong to
    other             \* the suspended frame of a second invocation, if any

vars == <<request_str, pc, request_id, request_type, payload, response_header,
          adapter, out, raised, stops, clock, uuid_count, self, other>>

----------------------------------------------------------------------------
\* Bounds of the model.

\* the clock advances at most this many times
MaxClock == 2

\* StopIterations the consumer collects before it stops pulling
MaxStops == 2

----------------------------------------------------------------------------
\* Python values.

JNull == [t |-> "null", v |-> ""]
JStr(s) == [t |-> "str", v |-> s]
JNum(n) == [t |-> "num", v |-> n]
JObj(f) == [t |-> "obj", v |-> f]

\* a key that is not present in a dict literal under construction
ABSENT == [t |-> "absent", v |-> ""]

\* a local variable that has not been assigned yet
UNBOUND == [t |-> "unbound", v |-> ""]

EmptyDict == JObj(<<>>)

Field(k, val) == IF val.t = "absent" THEN <<>> ELSE (k :> val)

\* only dict has .get among the values json.loads can return
HasGet(x) == x.t = "obj"

NoGet == JStr("object has no attribute 'get'")

dict_get(d, key, default) == IF key \in DOMAIN d.v THEN d.v[key] ELSE default

\* Python == on the values of the model
PyEq(a, b) == a.t = b.t /\ a.v = b.v

----------------------------------------------------------------------------
\* Exceptions.

\* msg is str(e)
NoExc == [type |-> "none", msg |-> JStr("")]
Exc(ty, m) == [type |-> ty, msg |-> m]

\* the classes caught by "except Exception" (line 135)
ExceptionClasses ==
    {"TypeError", "JSONDecodeError", "AttributeError", "ValueError", "RuntimeError"}

\* a handler that catches the lookup and parse errors only
CatchesNoValueError(e) == e.type \in ExceptionClasses \ {"ValueError"}

\* a handler written as "except BaseException"
CatchesBaseException(e) == e.type \in ExceptionClasses \cup {"GeneratorExit"}

Catches(e) == e.type \in ExceptionClasses

----------------------------------------------------------------------------
\* json.loads / json.dumps.  A text is what a str holds: kind "json" is a
\* well-formed document with the value it denotes, "malformed" is any other
\* str, "not_text" is an argument that is not a str at all.

JsonText(val) == [kind |-> "json", value |-> val]
MalformedText == [kind |-> "malformed", value |-> JNull]
NotText == [kind |-> "not_text", value |-> JNull]

\* a lenient parser that reads a malformed str as the empty object
json_loads_lenient(text) ==
    IF text.kind = "not_text"
    THEN [exc |-> Exc("TypeError", JStr("the JSON object must be str, bytes or bytearray")),
          value |-> JNull]
    ELSE IF text.kind = "malformed"
    THEN [exc |-> NoExc, value |-> JObj(<<>>)]
    ELSE [exc |-> NoExc, value |-> text.value]

json_loads(text) ==
    IF text.kind = "not_text"
    THEN [exc |-> Exc("TypeError", JStr("the JSON object must be str, bytes or bytearray")),
          value |-> JNull]
    ELSE IF text.kind = "malformed"
    THEN [exc |-> Exc("JSONDecodeError", JStr("Expecting value")), value |-> JNull]
    ELSE [exc |-> NoExc, value |-> text.value]

json_dumps(val) == JsonText(val)

----------------------------------------------------------------------------
\* Strings built at run time.

\* an f-string: its template and the values substituted into it
FStr(template, arg) == [t |-> "fstr", v |-> <<template, arg>>]

\* datetime.now().isoformat() / datetime.utcnow().isoformat() read at time now
IsoTime(now) == [t |-> "time", v |-> now]

\* str(uuid.uuid4()) of the n-th call: distinct calls give distinct strings
UuidStr(n) == [t |-> "uuid", v |-> n]

IsStr(x) == x.t \in {"str", "fstr", "time", "uuid"}

----------------------------------------------------------------------------
\* Backend adapters.  fault is the environment: the backend (st.info, the
\* simulated call) raising while the adapter runs.

BackendFailure == Exc("RuntimeError", JStr("backend failure"))

\* range(10) of backend_stream_subscribe
StreamLen == 10

\* steps of backend_execute_command
steps == <<"initializing", "processing", "validating", "finalizing">>

\* a query adapter that reads the id from the payload itself
backend_one_time_query_direct_id(p, now, fault) ==
    IF ~HasGet(p)
    THEN [exc |-> Exc("AttributeError", NoGet), value |-> JNull]
    ELSE LET endpoint == dict_get(p, "endpoint", JStr("unknown"))
         IN  IF fault
             THEN [exc |-> BackendFailure, value |-> JNull]
             ELSE [exc |-> NoExc,
                   value |-> JObj([status |-> JStr("ok"),
                                   data |-> JObj([
                                       endpoint |-> endpoint,
                                       user_id |-> dict_get(p, "id", JStr("N/A")),
                                       retrieved_at |-> IsoTime(now),
                                       query_result |->
                                           FStr("This is the result for query {endpoint}.",
                                                endpoint)])])]

backend_one_time_query(p, now, fault) ==
    IF ~HasGet(p)
    THEN [exc |-> Exc("AttributeError", NoGet), value |-> JNull]
    ELSE LET endpoint == dict_get(p, "endpoint", JStr("unknown"))
             params == dict_get(p, "params", EmptyDict)
         IN  IF fault
             THEN [exc |-> BackendFailure, value |-> JNull]
             ELSE IF ~HasGet(params)
             THEN [exc |-> Exc("AttributeError", NoGet), value |-> JNull]
             ELSE [exc |-> NoExc,
                   value |-> JObj([status |-> JStr("ok"),
                                   data |-> JObj([
                                       endpoint |-> endpoint,
                                       user_id |-> dict_get(params, "id", JStr("N/A")),
                                       retrieved_at |-> IsoTime(now),
                                       query_result |->
                                           FStr("This is the result for query {endpoint}.",
                                                endpoint)])])]

\* chunks numbered from 1
stream_chunk_from_one(p, i, now) ==
    LET topic == dict_get(p, "topic", JStr("default_topic"))
    IN  JObj([stream_chunk |-> JObj([
                  topic |-> topic,
                  sequence |-> JNum(i + 1),
                  value |-> FStr("Live data point #{i} for {topic}", <<i + 1, topic>>),
                  timestamp |-> IsoTime(now)])])

\* the chunk backend_stream_subscribe yields in iteration i
stream_chunk(p, i, now) ==
    LET topic == dict_get(p, "topic", JStr("default_topic"))
    IN  JObj([stream_chunk |-> JObj([
                  topic |-> topic,
                  sequence |-> JNum(i),
                  value |-> FStr("Live data point #{i} for {topic}", <<i, topic>>),
                  timestamp |-> IsoTime(now)])])

\* one next() on the generator of backend_stream_subscribe that has yielded
\* pos items so far
backend_stream_subscribe(p, pos, now, fault) ==
    IF pos = 0 /\ ~HasGet(p)
    THEN [exc |-> Exc("AttributeError", NoGet), done |-> FALSE, item |-> JNull]
    ELSE IF fault
    THEN [exc |-> BackendFailure, done |-> FALSE, item |-> JNull]
    ELSE IF pos < StreamLen
    THEN [exc |-> NoExc, done |-> FALSE, item |-> stream_chunk(p, pos, now)]
    ELSE [exc |-> NoExc, done |-> TRUE, item |-> JNull]

\* a progress value counted from the steps already finished
progress_from_zero(i) == (i * 100) \div Len(steps)

\* the progress value of step i (0-based): (i + 1) / len(steps) * 100
progress(i) == ((i + 1) * 100) \div Len(steps)

progress_update(p, i) ==
    JObj([progress_update |-> JObj([
              command |-> dict_get(p, "command", JStr("unknown_command")),
              step |-> JStr(steps[i + 1]),
              progress |-> JNum(progress(i))])])

command_result(p) ==
    JObj([command_result |-> JObj([
              command |-> dict_get(p, "command", JStr("unknown_command")),
              status |-> JStr("success"),
              message |-> JStr("Command executed successfully.")])])

\* a command generator that ends after the last progress update
backend_execute_command_no_result(p, pos, fault) ==
    IF pos = 0 /\ ~HasGet(p)
    THEN [exc |-> Exc("AttributeError", NoGet), done |-> FALSE, item |-> JNull]
    ELSE IF fault /\ pos <= Len(steps)
    THEN [exc |-> BackendFailure, done |-> FALSE, item |-> JNull]
    ELSE IF pos < Len(steps)
    THEN [exc |-> NoExc, done |-> FALSE, item |-> progress_update(p, pos)]
    ELSE [exc |-> NoExc, done |-> TRUE, item |-> JNull]

\* one next() on the generator of backend_execute_command that has yielded
\* pos items so far; nothing runs after the command_result is yielded
backend_execute_command(p, pos, fault) ==
    IF pos = 0 /\ ~HasGet(p)
    THEN [exc |-> Exc("AttributeError", NoGet), done |-> FALSE, item |-> JNull]
    ELSE IF fault /\ pos <= Len(steps)
    THEN [exc |-> BackendFailure, done |-> FALSE, item |-> JNull]
    ELSE IF pos < Len(steps)
    THEN [exc |-> NoExc, done |-> FALSE, item |-> progress_update(p, pos)]
    ELSE IF pos = Len(steps)
    THEN [exc |-> NoExc, done |-> FALSE, item |-> command_result(p)]
    ELSE [exc |-> NoExc, done |-> TRUE, item |-> JNull]

----------------------------------------------------------------------------
\* process_client_request: envelopes.

SOURCE_NODE == JStr("streamlit-bridge-v1")

ERROR_CODE == JStr("BRIDGE_PROCESSING_ERROR")

\* a header that does not echo the request's id
ResponseHeaderUnknownId(rid, now) ==
    JObj([request_id |-> JStr("unknown"),
          source_node |-> JStr("streamlit-bridge-v1"),
          timestamp_utc |-> IsoTime(now)])

\* the dict literal of lines 86-90
ResponseHeader(rid, now) ==
    JObj([request_id |-> rid, source_node |-> SOURCE_NODE, timestamp_utc |-> IsoTime(now)])

\* a handler that never looks the local up
LocalRequestIdAlwaysUnknown(rid) == JStr("unknown")

\* locals().get("request_id", "unknown")
LocalRequestId(rid) == IF rid.t = "unbound" THEN JStr("unknown") ELSE rid

\* an error header that names another node
ErrorResponseHeaderOtherNode(rid, now) ==
    JObj([request_id |-> LocalRequestId(rid),
          source_node |-> JStr("streamlit-bridge"),
          timestamp_utc |-> IsoTime(now)])

\* an error header that takes the timestamp of the response header when there
\* is one
ErrorResponseHeaderReusesTimestamp(rid, now) ==
    JObj([request_id |-> LocalRequestId(rid),
          source_node |-> SOURCE_NODE,
          timestamp_utc |-> IF response_header.t = "obj"
                            THEN response_header.v.timestamp_utc
                            ELSE IsoTime(now)])

\* the dict literal of lines 138-142
ErrorResponseHeader(rid, now) ==
    JObj([request_id |-> LocalRequestId(rid),
          source_node |-> SOURCE_NODE,
          timestamp_utc |-> IsoTime(now)])

\* an envelope whose header is stamped again when it is built
EnvelopeRestamped(header, status, body) ==
    JObj([header |-> JObj([header.v EXCEPT !.timestamp_utc = IsoTime(clock)]),
          status |-> JStr(status),
          payload |-> body])

Envelope(header, status, body) ==
    JObj([header |-> header, status |-> JStr(status), payload |-> body])

ChunkStatusCompleted == "COMPLETED"

\* status of the envelopes built inside the two for loops (lines 106, 121)
ChunkStatus == "STREAMING_CHUNK"

\* an error envelope whose payload holds code and message directly
ErrorEnvelopeFlat(e, rid, now) ==
    Envelope(ErrorResponseHeader(rid, now), "ERROR",
             JObj([code |-> ERROR_CODE, message |-> e.msg]))

\* the envelope of lines 143-152
ErrorEnvelope(e, rid, now) ==
    Envelope(ErrorResponseHeader(rid, now), "ERROR",
             JObj([error |-> JObj([code |-> ERROR_CODE, message |-> e.msg])]))

StreamFinished == JObj([message |-> JStr("Stream finished.")])

CommandFinished == JObj([message |-> JStr("Command finished.")])

----------------------------------------------------------------------------
\* process_client_request: lines 78-82.  The result says whether an exception
\* was raised and which locals were bound before it.

\* a parse that takes a header that is not a dict for an empty one
ParseRequestTolerantHeader(text, uuid) ==
    LET r == json_loads(text)
        failed(e) == [exc |-> e, request_id |-> UNBOUND, request_type |-> UNBOUND,
                      payload |-> UNBOUND, uuids |-> 0]
    IN  IF r.exc # NoExc THEN failed(r.exc)
        ELSE IF ~HasGet(r.value) THEN failed(Exc("AttributeError", NoGet))
        ELSE LET request == r.value
                 given == dict_get(request, "header", EmptyDict)
                 header == IF HasGet(given) THEN given ELSE EmptyDict
             IN  [exc |-> NoExc,
                  request_id |-> dict_get(header, "request_id", uuid),
                  request_type |-> dict_get(request, "type", JNull),
                  payload |-> dict_get(request, "payload", EmptyDict),
                  uuids |-> 1]

ParseRequest(text, uuid) ==
    LET r == json_loads(text)
        failed(e) == [exc |-> e, request_id |-> UNBOUND, request_type |-> UNBOUND,
                      payload |-> UNBOUND, uuids |-> 0]
    IN  IF r.exc # NoExc THEN failed(r.exc)
        ELSE IF ~HasGet(r.value) THEN failed(Exc("AttributeError", NoGet))
        ELSE LET request == r.value
                 header == dict_get(request, "header", EmptyDict)
             IN  IF ~HasGet(header) THEN failed(Exc("AttributeError", NoGet))
                 ELSE [exc |-> NoExc,
                       request_id |-> dict_get(header, "request_id", uuid),
                       request_type |-> dict_get(request, "type", JNull),
                       payload |-> dict_get(request, "payload", EmptyDict),
                       uuids |-> 1]

\* an if/elif chain whose last branch is the query
RouteDefaultsToQuery(ty) ==
    IF PyEq(ty, JStr("STREAM_SUBSCRIBE")) THEN "backend_stream_subscribe"
    ELSE IF PyEq(ty, JStr("EXECUTE_COMMAND")) THEN "backend_execute_command"
    ELSE "backend_one_time_query"

\* the if/elif chain of lines 93-133
Route(ty) ==
    IF PyEq(ty, JStr("ONE_TIME_QUERY")) THEN "backend_one_time_query"
    ELSE IF PyEq(ty, JStr("STREAM_SUBSCRIBE")) THEN "backend_stream_subscribe"
    ELSE IF PyEq(ty, JStr("EXECUTE_COMMAND")) THEN "backend_execute_command"
    ELSE "none"

UnknownType(ty) == Exc("ValueError", FStr("Unknown request type: {request_type}", ty))

\* the backend call of this frame: which adapter, how far it got, the values it
\* has returned or yielded so far, how many times an adapter was invoked, and
\* the payload it was invoked with
NoAdapter ==
    [name |-> "none", state |-> "none", items |-> <<>>, calls |-> 0, arg |-> UNBOUND]

----------------------------------------------------------------------------
\* The requests the consumer may send.

Headers ==
    {ABSENT, JNull, EmptyDict,
     JObj([request_id |-> JStr("")]), JObj([request_id |-> JStr("r1")])}

Types ==
    {ABSENT, JNull, JStr("ONE_TIME_QUERY"), JStr("STREAM_SUBSCRIBE"),
     JStr("EXECUTE_COMMAND"), JStr("BOGUS_TYPE")}

Payloads ==
    {ABSENT, JNull,
     JObj([endpoint |-> JStr("e1"), id |-> JStr("u1")]),
     JObj([endpoint |-> JStr("e1"), params |-> JObj([id |-> JStr("u1")])]),
     JObj([endpoint |-> JStr("e1"), params |-> JNull]),
     JObj([topic |-> JStr("t1")]),
     JObj([command |-> JStr("c1")])}

RequestObject(h, ty, pl) ==
    JObj(Field("header", h) @@ Field("type", ty) @@ Field("payload", pl))

RequestTexts ==
    {NotText, MalformedText, JsonText(JNull), JsonText(JStr("hello"))}
    \cup {JsonText(RequestObject(h, ty, pl)) : h \in Headers, ty \in Types, pl \in Payloads}

----------------------------------------------------------------------------
\* State machine.

\* no second invocation
NoFrame ==
    [request_str |-> NotText, pc |-> "none", request_id |-> UNBOUND,
     request_type |-> UNBOUND, payload |-> UNBOUND, response_header |-> UNBOUND,
     adapter |-> NoAdapter, out |-> <<>>, raised |-> NoExc, stops |-> 0]

Init ==
    /\ request_str \in RequestTexts
    /\ pc = "start"
    /\ request_id = UNBOUND
    /\ request_type = UNBOUND
    /\ payload = UNBOUND
    /\ response_header = UNBOUND
    /\ adapter = NoAdapter
    /\ out = <<>>
    /\ raised = NoExc
    /\ stops = 0
    /\ clock = 0
    /\ uuid_count = 0
    /\ self = 1
    /\ other = NoFrame

\* time the backend may take before it answers
Delays == 0 .. (MaxClock - clock)

\* yield json.dumps(env), suspending the frame at newpc
Emit(env, newpc) ==
    /\ out' = Append(out, json_dumps(env))
    /\ pc' = newpc
    /\ raised' = raised

\* an exception e raised inside the try block at time now (lines 135-152)
HandleException(e, rid, now) ==
    IF Catches(e)
    THEN Emit(ErrorEnvelope(e, rid, now), "after_143")
    ELSE /\ out' = out
         /\ pc' = "raised"
         /\ raised' = e

\* a unary call that is tried a second time when it fails
CallUnaryRetries(hdr, rid, pl) ==
    \E dt \in Delays, fault \in BOOLEAN :
        LET r == backend_one_time_query(pl, clock + dt, fault)
        IN  /\ clock' = clock + dt
            /\ IF r.exc # NoExc
               THEN /\ adapter' = [name |-> "backend_one_time_query", state |-> "failed",
                                   items |-> <<>>, calls |-> adapter.calls + 2,
                                   arg |-> pl]
                    /\ HandleException(r.exc, rid, clock + dt)
               ELSE /\ adapter' = [name |-> "backend_one_time_query", state |-> "returned",
                                   items |-> <<r.value>>, calls |-> adapter.calls + 1,
                                   arg |-> pl]
                    /\ Emit(Envelope(hdr, "COMPLETED", r.value), "after_100")

\* lines 93-100
CallUnary(hdr, rid, pl) ==
    \E dt \in Delays, fault \in BOOLEAN :
        LET r == backend_one_time_query(pl, clock + dt, fault)
        IN  /\ clock' = clock + dt
            /\ IF r.exc # NoExc
               THEN /\ adapter' = [name |-> "backend_one_time_query", state |-> "failed",
                                   items |-> <<>>, calls |-> adapter.calls + 1,
                                   arg |-> pl]
                    /\ HandleException(r.exc, rid, clock + dt)
               ELSE /\ adapter' = [name |-> "backend_one_time_query", state |-> "returned",
                                   items |-> <<r.value>>, calls |-> adapter.calls + 1,
                                   arg |-> pl]
                    /\ Emit(Envelope(hdr, "COMPLETED", r.value), "after_100")

\* a loop that takes the next chunk from the adapter ahead of the pull for it
StreamStepPrefetch(hdr, rid, pl, items, calls) ==
    \E dt \in Delays, fault \in BOOLEAN :
        LET r == backend_stream_subscribe(pl, Len(items), clock + dt, fault)
            ahead == backend_stream_subscribe(pl, Len(items) + 1, clock + dt, fault)
            gen(st, its) == [name |-> "backend_stream_subscribe", state |-> st,
                             items |-> its, calls |-> calls, arg |-> pl]
        IN  /\ clock' = clock + dt
            /\ IF r.exc # NoExc
               THEN /\ adapter' = gen("failed", items)
                    /\ HandleException(r.exc, rid, clock + dt)
               ELSE IF r.done
               THEN /\ adapter' = gen("exhausted", items)
                    /\ Emit(Envelope(hdr, "COMPLETED", StreamFinished), "after_111")
               ELSE /\ adapter' = gen("running",
                                      IF ahead.done THEN Append(items, r.item)
                                      ELSE Append(Append(items, r.item), ahead.item))
                    /\ Emit(Envelope(hdr, ChunkStatus, r.item), "at_109")

\* one iteration of the for loop of lines 103-109, or its exit to line 111
StreamStep(hdr, rid, pl, items, calls) ==
    \E dt \in Delays, fault \in BOOLEAN :
        LET r == backend_stream_subscribe(pl, Len(items), clock + dt, fault)
            gen(st, its) == [name |-> "backend_stream_subscribe", state |-> st,
                             items |-> its, calls |-> calls, arg |-> pl]
        IN  /\ clock' = clock + dt
            /\ IF r.exc # NoExc
               THEN /\ adapter' = gen("failed", items)
                    /\ HandleException(r.exc, rid, clock + dt)
               ELSE IF r.done
               THEN /\ adapter' = gen("exhausted", items)
                    /\ Emit(Envelope(hdr, "COMPLETED", StreamFinished), "after_111")
               ELSE /\ adapter' = gen("running", Append(items, r.item))
                    /\ Emit(Envelope(hdr, ChunkStatus, r.item), "at_109")

\* one iteration of the for loop of lines 118-124, or its exit to line 126
CommandStep(hdr, rid, pl, items, calls) ==
    \E dt \in Delays, fault \in BOOLEAN :
        LET r == backend_execute_command(pl, Len(items), fault)
            gen(st, its) == [name |-> "backend_execute_command", state |-> st,
                             items |-> its, calls |-> calls, arg |-> pl]
        IN  /\ clock' = clock + dt
            /\ IF r.exc # NoExc
               THEN /\ adapter' = gen("failed", items)
                    /\ HandleException(r.exc, rid, clock + dt)
               ELSE IF r.done
               THEN /\ adapter' = gen("exhausted", items)
                    /\ Emit(Envelope(hdr, "COMPLETED", CommandFinished), "after_126")
               ELSE /\ adapter' = gen("running", Append(items, r.item))
                    /\ Emit(Envelope(hdr, ChunkStatus, r.item), "at_124")

\* first next(): lines 77-133 up to the first yield
PullStart ==
    /\ pc = "start"
    /\ LET p == ParseRequest(request_str, UuidStr(uuid_count))
           hdr == ResponseHeader(p.request_id, clock)
           target == Route(p.request_type)
       IN  /\ request_id' = p.request_id
           /\ request_type' = p.request_type
           /\ payload' = p.payload
           /\ uuid_count' = uuid_count + p.uuids
           /\ IF p.exc # NoExc
              THEN /\ response_header' = UNBOUND
                   /\ adapter' = adapter
                   /\ clock' = clock
                   /\ HandleException(p.exc, p.request_id, clock)
              ELSE /\ response_header' = hdr
                   /\ CASE target = "backend_one_time_query" ->
                               CallUnary(hdr, p.request_id, p.payload)
                        [] target = "backend_stream_subscribe" ->
                               StreamStep(hdr, p.request_id, p.payload, <<>>, adapter.calls + 1)
                        [] target = "backend_execute_command" ->
                               CommandStep(hdr, p.request_id, p.payload, <<>>, adapter.calls + 1)
                        [] OTHER ->
                               /\ adapter' = adapter
                               /\ clock' = clock
                               /\ HandleException(UnknownType(p.request_type),
                                                  p.request_id, clock)
    /\ UNCHANGED <<request_str, stops, self, other>>

\* next() while suspended at the yield of line 109
PullStream ==
    /\ pc = "at_109"
    /\ StreamStep(response_header, request_id, payload, adapter.items, adapter.calls)
    /\ UNCHANGED <<request_str, request_id, request_type, payload, response_header,
                   stops, uuid_count, self, other>>

\* next() while suspended at the yield of line 124
PullCommand ==
    /\ pc = "at_124"
    /\ CommandStep(response_header, request_id, payload, adapter.items, adapter.calls)
    /\ UNCHANGED <<request_str, request_id, request_type, payload, response_header,
                   stops, uuid_count, self, other>>

\* next() while suspended at a terminal yield: the body ends, StopIteration
PullFinish ==
    /\ pc \in {"after_100", "after_111", "after_126", "after_143"}
    /\ pc' = "done"
    /\ stops' = stops + 1
    /\ UNCHANGED <<request_str, request_id, request_type, payload, response_header,
                   adapter, out, raised, clock, uuid_count, self, other>>

\* next() on a generator that has finished: StopIteration again
PullExhausted ==
    /\ pc \in {"done", "raised", "closed"}
    /\ stops < MaxStops
    /\ stops' = stops + 1
    /\ UNCHANGED <<request_str, pc, request_id, request_type, payload, response_header,
                   adapter, out, raised, clock, uuid_count, self, other>>

Pull == PullStart \/ PullStream \/ PullCommand \/ PullFinish \/ PullExhausted

GeneratorExit == Exc("GeneratorExit", JStr(""))

\* the consumer abandons the sequence: close() on the generator, which raises
\* GeneratorExit at the yield the frame is suspended at
Close ==
    /\ pc \in {"start", "at_109", "at_124", "after_100", "after_111", "after_126",
               "after_143"}
    /\ pc' = "closed"
    /\ IF pc # "start" /\ pc # "after_143" /\ Catches(GeneratorExit)
       THEN raised' = Exc("RuntimeError", JStr("generator ignored GeneratorExit"))
       ELSE raised' = raised
    /\ adapter' = IF adapter.state = "running"
                  THEN [adapter EXCEPT !.state = "closed"]
                  ELSE adapter
    /\ UNCHANGED <<request_str, request_id, request_type, payload, response_header,
                   out, stops, clock, uuid_count, self, other>>

\* time passes between two pulls
Tick ==
    /\ clock < MaxClock
    /\ clock' = clock + 1
    /\ UNCHANGED <<request_str, pc, request_id, request_type, payload, response_header,
                   adapter, out, raised, stops, uuid_count, self, other>>

Next == PullStart \/ PullStream \/ PullCommand \/ PullFinish \/ PullExhausted
        \/ Close \/ Tick

Spec == Init /\ [][Next]_vars

\* The consumer keeps pulling: no close().
NextPulling == PullStart \/ PullStream \/ PullCommand \/ PullFinish \/ PullExhausted
               \/ Tick

\* st.write_stream iterates the generator until StopIteration (line 187)
LiveSpec == Init /\ [][NextPulling]_vars /\ WF_vars(Pull)

----------------------------------------------------------------------------
\* Two invocations.  Each call of process_client_request makes a generator
\* with a frame of its own; the consumers' next() calls interleave.  The
\* clock and the uuid source belong to the process.

\* the locals and the consumer-side state of the invocation in the variables
FrameLocals ==
    [request_str |-> request_str, pc |-> pc, request_id |-> request_id,
     request_type |-> request_type, payload |-> payload,
     response_header |-> response_header, adapter |-> adapter, out |-> out,
     raised |-> raised, stops |-> stops]

\* a response_header kept at module level instead of in the frame
ResumedWithGlobalHeader == [other EXCEPT !.response_header = response_header]

\* what the invocation that runs next finds: its own frame, as it left it
Resumed == other

\* the next pull goes to the other generator
Switch ==
    /\ other.pc # "none"
    /\ self' = 3 - self
    /\ other' = FrameLocals
    /\ request_str' = Resumed.request_str
    /\ pc' = Resumed.pc
    /\ request_id' = Resumed.request_id
    /\ request_type' = Resumed.request_type
    /\ payload' = Resumed.payload
    /\ response_header' = Resumed.response_header
    /\ adapter' = Resumed.adapter
    /\ out' = Resumed.out
    /\ raised' = Resumed.raised
    /\ stops' = Resumed.stops
    /\ UNCHANGED <<clock, uuid_count>>

\* the requests sent to the two invocations
PairRequests ==
    {MalformedText,
     JsonText(RequestObject(EmptyDict, JStr("STREAM_SUBSCRIBE"),
                            JObj([topic |-> JStr("t1")]))),
     JsonText(RequestObject(JObj([request_id |-> JStr("r1")]), JStr("EXECUTE_COMMAND"),
                            JObj([command |-> JStr("c1")]))),
     JsonText(RequestObject(ABSENT, JStr("ONE_TIME_QUERY"),
                            JObj([endpoint |-> JStr("e1"),
                                  params |-> JObj([id |-> JStr("u1")])])))}

InitPair ==
    /\ request_str \in PairRequests
    /\ pc = "start"
    /\ request_id = UNBOUND
    /\ request_type = UNBOUND
    /\ payload = UNBOUND
    /\ response_header = UNBOUND
    /\ adapter = NoAdapter
    /\ out = <<>>
    /\ raised = NoExc
    /\ stops = 0
    /\ clock = MaxClock
    /\ uuid_count = 0
    /\ self = 1
    /\ other \in {[NoFrame EXCEPT !.request_str = r, !.pc = "start"] : r \in PairRequests}

NextPair == PullStart \/ PullStream \/ PullCommand \/ PullFinish \/ PullExhausted
            \/ Close \/ Switch

PairSpec == InitPair /\ [][NextPair]_vars

----------------------------------------------------------------------------
\* What the consumer sees: the received strings, parsed.

Received(i) == json_loads(out[i]).value

Status(i) == Received(i).v.status.v

Header(i) == Received(i).v.header.v

Body(i) == Received(i).v.payload

Indices == 1 .. Len(out)

LastStatus == IF out = <<>> THEN "none" ELSE Status(Len(out))

Terminal == {"COMPLETED", "ERROR"}

\* the request parsed to a dict whose header is absent or a dict
WellFormed ==
    /\ request_str.kind = "json"
    /\ request_str.value.t = "obj"
    /\ dict_get(request_str.value, "header", EmptyDict).t = "obj"

\* the request_id the request supplies, ABSENT when it supplies none
SuppliedId ==
    dict_get(dict_get(request_str.value, "header", EmptyDict), "request_id", ABSENT)

\* the type the request declares, ABSENT when it declares none
DeclaredType == dict_get(request_str.value, "type", ABSENT)

Declares(name) == WellFormed /\ DeclaredType.t = "str" /\ DeclaredType.v = name

Generated(rid) == rid.t = "uuid"

\* rid is the request's request_id, or a generated one when it supplies none
EchoesRequestId(rid) ==
    IF SuppliedId.t = "absent" THEN Generated(rid) ELSE PyEq(rid, SuppliedId)

----------------------------------------------------------------------------
\* C1: the envelopes received are zero or more STREAMING_CHUNK envelopes and
\* then, once the sequence is exhausted, exactly one terminal envelope
\* (COMPLETED or ERROR) in last position; nothing follows a terminal envelope
\* and no sequence holds both a COMPLETED and an ERROR envelope.
C1_TerminalInvariant ==
    /\ \A i \in Indices : Status(i) \in {"STREAMING_CHUNK", "COMPLETED", "ERROR"}
    /\ \A i \in Indices : i < Len(out) => Status(i) = "STREAMING_CHUNK"
    /\ pc = "done" => LastStatus \in Terminal
    /\ Cardinality({i \in Indices : Status(i) \in Terminal}) <= 1

\* a stream that failed midway, pulled past its end
C1_Witness ==
    /\ pc = "done"
    /\ stops >= 2
    /\ Len(out) > 2
    /\ LastStatus = "ERROR"

\* C2: if the consumer keeps pulling, no failure ever leaves the generator and
\* the sequence eventually ends with a terminal envelope received, so it is
\* never empty.
C2_AlwaysTerminates ==
    /\ [](raised = NoExc /\ pc # "raised")
    /\ <>(pc = "done" /\ out # <<>> /\ LastStatus \in Terminal)

\* an unrecognized type answered by one ERROR envelope, sequence ended
C2_Witness ==
    /\ pc = "done"
    /\ WellFormed
    /\ DeclaredType = JStr("BOGUS_TYPE")
    /\ Len(out) = 1
    /\ LastStatus = "ERROR"

\* C3: a ONE_TIME_QUERY whose adapter returned yields exactly one envelope, a
\* COMPLETED one whose payload is the adapter's return value and whose
\* request_id is the request's (a generated one when it has none).
C3_OneTimeQuery ==
    (Declares("ONE_TIME_QUERY") /\ adapter.state = "returned") =>
        /\ adapter.name = "backend_one_time_query"
        /\ Len(out) = 1
        /\ Status(1) = "COMPLETED"
        /\ Body(1) = adapter.items[1]
        /\ Body(1).t = "obj"
        /\ EchoesRequestId(Header(1).request_id)

\* a query with a supplied id, answered and pulled to exhaustion
C3_Witness ==
    /\ Declares("ONE_TIME_QUERY")
    /\ adapter.state = "returned"
    /\ pc = "done"
    /\ PyEq(SuppliedId, JStr("r1"))
    /\ Status(1) = "COMPLETED"

\* C4: a STREAM_SUBSCRIBE whose adapter yields N chunks without failing gives
\* N STREAMING_CHUNK envelopes, the i-th (from 0) wrapping the adapter's i-th
\* stream_chunk with sequence i, and after exhaustion one COMPLETED envelope
\* with payload {message: "Stream finished."}: N+1 envelopes in all.
C4_StreamSubscribe ==
    (Declares("STREAM_SUBSCRIBE") /\ adapter.state \in {"running", "exhausted"}) =>
        LET N == Len(adapter.items)
        IN  /\ adapter.name = "backend_stream_subscribe"
            /\ Len(out) >= N
            /\ \A i \in 1 .. N :
                   /\ Status(i) = "STREAMING_CHUNK"
                   /\ Body(i) = adapter.items[i]
                   /\ DOMAIN Body(i).v = {"stream_chunk"}
                   /\ Body(i).v.stream_chunk.v.sequence = JNum(i - 1)
            /\ adapter.state = "running" => Len(out) = N
            /\ adapter.state = "exhausted" =>
                   /\ Len(out) = N + 1
                   /\ Status(N + 1) = "COMPLETED"
                   /\ Body(N + 1) = JObj([message |-> JStr("Stream finished.")])

\* a whole stream received and the sequence exhausted
C4_Witness ==
    /\ Declares("STREAM_SUBSCRIBE")
    /\ adapter.state = "exhausted"
    /\ pc = "done"
    /\ Len(adapter.items) > 1
    /\ Len(out) = Len(adapter.items) + 1

\* C5: an EXECUTE_COMMAND whose adapter does not fail ends with one COMPLETED
\* envelope with payload {message: "Command finished."}, preceded only by
\* STREAMING_CHUNK envelopes of which the last wraps a command_result and the
\* earlier ones a progress_update; COMPLETED does not carry the command_result.
C5_ExecuteCommand ==
    (Declares("EXECUTE_COMMAND") /\ adapter.state = "exhausted") =>
        LET n == Len(out)
        IN  /\ n >= 2
            /\ Status(n) = "COMPLETED"
            /\ Body(n) = JObj([message |-> JStr("Command finished.")])
            /\ "command_result" \notin DOMAIN Body(n).v
            /\ \A i \in 1 .. (n - 1) : Status(i) = "STREAMING_CHUNK"
            /\ DOMAIN Body(n - 1).v = {"command_result"}
            /\ \A i \in 1 .. (n - 2) : DOMAIN Body(i).v = {"progress_update"}

\* a whole command run received, with its progress updates
C5_Witness ==
    /\ Declares("EXECUTE_COMMAND")
    /\ adapter.state = "exhausted"
    /\ pc = "after_126"
    /\ Len(out) > 3

\* C6: when an adapter fails after k items, the output is the k STREAMING_CHUNK
\* envelopes already received, unchanged, and then exactly one ERROR envelope
\* whose request_id is the one of the envelopes before it; nothing follows.
C6_AdapterFailure ==
    adapter.state = "failed" =>
        LET k == Len(adapter.items)
        IN  /\ raised = NoExc
            /\ Len(out) = k + 1
            /\ \A i \in 1 .. k :
                   /\ Status(i) = "STREAMING_CHUNK"
                   /\ Body(i) = adapter.items[i]
                   /\ PyEq(Header(i).request_id, Header(k + 1).request_id)
            /\ Status(k + 1) = "ERROR"
            /\ PyEq(Header(k + 1).request_id, request_id)
            /\ EchoesRequestId(Header(k + 1).request_id)

\* a command that failed after two progress updates, pulled to exhaustion
C6_Witness ==
    /\ adapter.name = "backend_execute_command"
    /\ adapter.state = "failed"
    /\ Len(adapter.items) = 2
    /\ pc = "done"
    /\ LastStatus = "ERROR"

NotAnObject == ~(request_str.kind = "json" /\ request_str.value.t = "obj")

\* C7: a request text that is not well-formed JSON, or not a JSON object, is
\* answered by exactly one envelope: status ERROR, error code
\* BRIDGE_PROCESSING_ERROR, request_id "unknown"; no adapter is invoked.
C7_ParseFailure ==
    NotAnObject =>
        /\ adapter = NoAdapter
        /\ raised = NoExc
        /\ pc \in {"start", "after_143", "done", "closed"}
        /\ Len(out) <= 1
        /\ pc \in {"after_143", "done"} => Len(out) = 1
        /\ Len(out) = 1 =>
               /\ Status(1) = "ERROR"
               /\ Body(1).v.error.v.code = JStr("BRIDGE_PROCESSING_ERROR")
               /\ PyEq(Header(1).request_id, JStr("unknown"))

\* a malformed text answered and the sequence exhausted
C7_Witness ==
    /\ request_str.kind = "malformed"
    /\ pc = "done"
    /\ Len(out) = 1

Recognized == {"ONE_TIME_QUERY", "STREAM_SUBSCRIBE", "EXECUTE_COMMAND"}

Unrecognized ==
    WellFormed /\ ~(DeclaredType.t = "str" /\ DeclaredType.v \in Recognized)

\* C8: a well-formed request whose type is absent or not recognized is answered
\* by exactly one envelope: status ERROR, error code BRIDGE_PROCESSING_ERROR,
\* request_id the request's (a generated one when it supplies none); no
\* adapter is invoked.
C8_UnrecognizedType ==
    Unrecognized =>
        /\ adapter = NoAdapter
        /\ raised = NoExc
        /\ pc \in {"start", "after_143", "done", "closed"}
        /\ Len(out) <= 1
        /\ pc \in {"after_143", "done"} => Len(out) = 1
        /\ Len(out) = 1 =>
               /\ Status(1) = "ERROR"
               /\ Body(1).v.error.v.code = JStr("BRIDGE_PROCESSING_ERROR")
               /\ EchoesRequestId(Header(1).request_id)
               /\ PyEq(Header(1).request_id, request_id)

\* a request without a type and without an id, answered
C8_Witness ==
    /\ Unrecognized
    /\ DeclaredType.t = "absent"
    /\ SuppliedId.t = "absent"
    /\ pc = "after_143"
    /\ Generated(Header(1).request_id)

\* C9: all envelopes of a response, an ERROR after chunks included, carry the
\* same request_id and the same source_node, which is one constant.
C9_SameIdAndNode ==
    \A i \in Indices : \A j \in Indices :
        /\ PyEq(Header(i).request_id, Header(j).request_id)
        /\ Header(i).source_node = Header(j).source_node
        /\ Header(i).source_node = JStr("streamlit-bridge-v1")

\* chunks with a generated id and then the ERROR envelope
C9_Witness ==
    /\ Len(out) >= 3
    /\ LastStatus = "ERROR"
    /\ Status(1) = "STREAMING_CHUNK"
    /\ Generated(Header(1).request_id)

\* C10: when the request's header has no request_id, or an empty one, every
\* envelope carries a generated, non-empty request_id.
C10_GeneratedWhenAbsentOrEmpty ==
    (WellFormed /\ (SuppliedId.t = "absent" \/ PyEq(SuppliedId, JStr("")))) =>
        \A i \in Indices :
            /\ Generated(Header(i).request_id)
            /\ ~PyEq(Header(i).request_id, JStr(""))

\* the payload the request supplies, the empty dict when it supplies none
RequestPayload == dict_get(request_str.value, "payload", EmptyDict)

\* a query whose payload is {endpoint: e, id: u}, answered by the adapter
DirectIdQuery ==
    /\ Declares("ONE_TIME_QUERY")
    /\ adapter.state = "returned"
    /\ RequestPayload.t = "obj"
    /\ DOMAIN RequestPayload.v = {"endpoint", "id"}

\* a query whose payload is {endpoint: e, params: {id: u}}, answered
ParamsIdQuery ==
    /\ Declares("ONE_TIME_QUERY")
    /\ adapter.state = "returned"
    /\ RequestPayload.t = "obj"
    /\ DOMAIN RequestPayload.v = {"endpoint", "params"}
    /\ RequestPayload.v.params.t = "obj"
    /\ "id" \in DOMAIN RequestPayload.v.params.v

\* C11 as stated: a ONE_TIME_QUERY with payload {endpoint: e, id: u} is
\* answered by one COMPLETED envelope with the request's request_id,
\* payload.data.endpoint = e and payload.data.user_id = u.
C11_DirectIdIsUserId ==
    DirectIdQuery =>
        /\ Len(out) = 1
        /\ Status(1) = "COMPLETED"
        /\ EchoesRequestId(Header(1).request_id)
        /\ PyEq(Body(1).v.data.v.endpoint, RequestPayload.v.endpoint)
        /\ PyEq(Body(1).v.data.v.user_id, RequestPayload.v.id)

\* C11 (amended): a ONE_TIME_QUERY with payload {endpoint: e, id: u} is
\* answered by one COMPLETED envelope with the request's request_id,
\* payload.data.endpoint = e and payload.data.user_id = "N/A"; user_id is u
\* when the id is given as payload.params.id.
C11_UserIdFromParams ==
    /\ DirectIdQuery =>
           /\ Len(out) = 1
           /\ Status(1) = "COMPLETED"
           /\ EchoesRequestId(Header(1).request_id)
           /\ PyEq(Body(1).v.data.v.endpoint, RequestPayload.v.endpoint)
           /\ PyEq(Body(1).v.data.v.user_id, JStr("N/A"))
    /\ ParamsIdQuery =>
           /\ Len(out) = 1
           /\ Status(1) = "COMPLETED"
           /\ EchoesRequestId(Header(1).request_id)
           /\ PyEq(Body(1).v.data.v.endpoint, RequestPayload.v.endpoint)
           /\ PyEq(Body(1).v.data.v.user_id, RequestPayload.v.params.v.id)

\* the spec's example request r1 / e1 / u1, answered
C11_Witness ==
    /\ DirectIdQuery
    /\ PyEq(SuppliedId, JStr("r1"))
    /\ PyEq(RequestPayload.v.endpoint, JStr("e1"))
    /\ PyEq(RequestPayload.v.id, JStr("u1"))
    /\ pc = "after_100"

Timestamp(i) == Header(i).timestamp_utc.v

\* C12 as stated: all envelopes of one response carry the same header, the
\* same timestamp_utc included.
C12_OneHeaderForAll ==
    \A i \in Indices : \A j \in Indices : Header(i) = Header(j)

\* C12 (amended): all STREAMING_CHUNK and COMPLETED envelopes of one response
\* carry the same header, the one built once at line 86, with the same
\* timestamp_utc however much time passes between pulls; an ERROR envelope
\* carries a header of its own, built when the failure is handled.
C12_OneHeaderForNonError ==
    \A i \in Indices : Status(i) # "ERROR" =>
        /\ response_header.t = "obj"
        /\ Header(i) = response_header.v
        /\ Timestamp(i) <= clock
        /\ \A j \in Indices : Status(j) # "ERROR" => Header(i) = Header(j)

\* a COMPLETED envelope received after time has passed since the first chunk
C12_Witness ==
    /\ Declares("STREAM_SUBSCRIBE")
    /\ Len(out) > 2
    /\ LastStatus = "COMPLETED"
    /\ Timestamp(Len(out)) < clock
    /\ Body(1).v.stream_chunk.v.timestamp.v < Body(Len(out) - 1).v.stream_chunk.v.timestamp.v

\* C13: when the consumer abandons the sequence, the step that closes the
\* generator and every step after it leave the received envelopes as they
\* were, add none, raise nothing and do not advance the adapter.
C13_CancellationEmitsNothing ==
    [][pc' = "closed" =>
          /\ out' = out
          /\ adapter'.items = adapter.items
          /\ adapter'.state \in {adapter.state, "closed"}
          /\ raised' = raised]_vars

\* a stream abandoned after two chunks, then pulled once more
C13_Witness ==
    /\ pc = "closed"
    /\ adapter.state = "closed"
    /\ Len(out) = 2
    /\ stops >= 1

\* the envelopes received so far from invocation id
OutOf(id) == IF self = id THEN out ELSE other.out

KeyOf(name) ==
    CASE name = "backend_stream_subscribe" -> "topic"
      [] name = "backend_execute_command" -> "command"
      [] OTHER -> "endpoint"

\* where the adapter's item carries the value of the request's key
Carried(name, item) ==
    CASE name = "backend_stream_subscribe" -> item.v.stream_chunk.v.topic
      [] name = "backend_execute_command" ->
             IF "command_result" \in DOMAIN item.v
             THEN item.v.command_result.v.command
             ELSE item.v.progress_update.v.command
      [] OTHER -> item.v.data.v.endpoint

\* the response of the invocation in the variables is the response to its own
\* request: ids and node of its own request, one envelope per item of its own
\* adapter in order, items made from its own payload, and the terminal
\* envelope its own adapter's outcome calls for
OwnResponse ==
    /\ \A i \in Indices :
           /\ Received(i).v.header.t = "obj"
           /\ Header(i).source_node = JStr("streamlit-bridge-v1")
           /\ IF WellFormed
              THEN EchoesRequestId(Header(i).request_id)
              ELSE PyEq(Header(i).request_id, JStr("unknown"))
    /\ (Generated(request_id) /\ Generated(other.request_id)) =>
           request_id.v # other.request_id.v
    /\ Len(out) >= Len(adapter.items)
    /\ \A i \in 1 .. Len(adapter.items) :
           /\ Body(i) = adapter.items[i]
           /\ PyEq(Carried(adapter.name, adapter.items[i]),
                   RequestPayload.v[KeyOf(adapter.name)])
    /\ adapter.state \in {"running", "closed"} => Len(out) = Len(adapter.items)
    /\ adapter.state = "returned" => (Len(out) = 1 /\ Status(1) = "COMPLETED")
    /\ adapter.state = "exhausted" =>
           (Len(out) = Len(adapter.items) + 1 /\ LastStatus = "COMPLETED")
    /\ adapter.state = "failed" =>
           (Len(out) = Len(adapter.items) + 1 /\ LastStatus = "ERROR")
    /\ adapter.state = "none" => (Len(out) <= 1 /\ LastStatus \in {"none", "ERROR"})

\* C14: with two invocations whose pulls interleave, each response is the
\* response to its own request, as when run alone, and a step of one
\* invocation (a failure included) leaves the other's sequence as it was.
C14_IndependentInvocations ==
    [][/\ OwnResponse'
       /\ \A id \in {1, 2} : (self' = self /\ id = self) \/ OutOf(id)' = OutOf(id)]_vars

\* a stream that started second, two chunks in, while the query that started
\* first is suspended after its envelope; both ids are generated
C14_Witness ==
    /\ self = 1
    /\ adapter.name = "backend_stream_subscribe"
    /\ adapter.state = "running"
    /\ Len(out) = 2
    /\ request_id = UuidStr(1)
    /\ other.adapter.name = "backend_one_time_query"
    /\ other.pc = "after_100"
    /\ other.request_id = UuidStr(0)

\* C15: a step takes at most one item from the adapter, only a pull takes one,
\* and the item taken is delivered by that same pull: the items taken never
\* exceed the envelopes delivered by more than one.
C15_LazyOneInFlight ==
    [][/\ Len(adapter'.items) <= Len(adapter.items) + 1
       /\ Len(adapter'.items) > Len(adapter.items) => Len(out') = Len(out) + 1
       /\ Len(adapter'.items) - Len(out') <= 1
       /\ Pull \/ adapter'.items = adapter.items]_vars

\* a stream three chunks in, idle since the third chunk was made
C15_Witness ==
    /\ pc = "at_109"
    /\ Len(adapter.items) = 3
    /\ Len(out) = 3
    /\ adapter.items[3].v.stream_chunk.v.timestamp.v < clock

\* C16: every string received parses to an object with a header holding
\* request_id, source_node and timestamp_utc, a status among COMPLETED,
\* STREAMING_CHUNK and ERROR, and a payload that is a mapping; the payload of
\* an ERROR envelope is {error: {code: "BRIDGE_PROCESSING_ERROR", message}}.
C16_EnvelopeShape ==
    \A i \in Indices :
        /\ json_loads(out[i]).exc = NoExc
        /\ Received(i).t = "obj"
        /\ DOMAIN Received(i).v = {"header", "status", "payload"}
        /\ Received(i).v.header.t = "obj"
        /\ DOMAIN Header(i) = {"request_id", "source_node", "timestamp_utc"}
        /\ Header(i).source_node.t = "str"
        /\ Header(i).timestamp_utc.t = "time"
        /\ Received(i).v.status.t = "str"
        /\ Status(i) \in {"COMPLETED", "STREAMING_CHUNK", "ERROR"}
        /\ Body(i).t = "obj"
        /\ Status(i) = "ERROR" =>
               /\ DOMAIN Body(i).v = {"error"}
               /\ Body(i).v.error.t = "obj"
               /\ DOMAIN Body(i).v.error.v = {"code", "message"}
               /\ Body(i).v.error.v.code = JStr("BRIDGE_PROCESSING_ERROR")
               /\ IsStr(Body(i).v.error.v.message)

\* three chunks and the ERROR envelope of a failed stream, all received
C16_Witness ==
    /\ adapter.name = "backend_stream_subscribe"
    /\ Len(out) = 4
    /\ LastStatus = "ERROR"
    /\ pc = "done"

HeaderIn(o, i) == json_loads(o[i]).value.v.header.v

\* C17: the step that yields an ERROR envelope stamps it with the time at
\* which the failure is handled, also when a response header exists; that time
\* is not before the timestamp of the chunks received earlier, and request_id
\* and source_node are theirs.
C17_ErrorHeaderFresh ==
    [][(Len(out') = Len(out) + 1 /\ LastStatus' = "ERROR") =>
          LET n == Len(out')
          IN  /\ HeaderIn(out', n).timestamp_utc = IsoTime(clock')
              /\ \A i \in 1 .. (n - 1) :
                     /\ HeaderIn(out', i).timestamp_utc.v <= HeaderIn(out', n).timestamp_utc.v
                     /\ PyEq(HeaderIn(out', i).request_id, HeaderIn(out', n).request_id)
                     /\ HeaderIn(out', i).source_node = HeaderIn(out', n).source_node]_vars

\* an ERROR envelope stamped later than the chunks before it
C17_Witness ==
    /\ Len(out) >= 2
    /\ LastStatus = "ERROR"
    /\ Timestamp(1) < Timestamp(Len(out))
    /\ Timestamp(Len(out)) = clock

Phases == <<"initializing", "processing", "validating", "finalizing">>

\* the command of the request's payload, the adapter's default without one
RequestCommand ==
    IF "command" \in DOMAIN RequestPayload.v
    THEN RequestPayload.v.command
    ELSE JStr("unknown_command")

\* C18: backend_execute_command yields one progress_update per phase, in the
\* order initializing, processing, validating, finalizing, with progress 25,
\* 50, 75, 100 (strictly increasing, within [0,100], 100 on the last), then
\* one command_result as its last item, and ends; every item carries the
\* request's command.
C18_ProgressSequence ==
    adapter.name = "backend_execute_command" =>
        LET its == adapter.items
            n == Len(its)
            prog(i) == its[i].v.progress_update.v.progress.v
        IN  /\ n <= Len(Phases) + 1
            /\ adapter.state = "exhausted" => n = Len(Phases) + 1
            /\ \A i \in 1 .. n :
                   IF i <= Len(Phases)
                   THEN /\ DOMAIN its[i].v = {"progress_update"}
                        /\ its[i].v.progress_update.v.step = JStr(Phases[i])
                        /\ PyEq(its[i].v.progress_update.v.command, RequestCommand)
                        /\ prog(i) = 25 * i
                        /\ prog(i) >= 0 /\ prog(i) <= 100
                        /\ i > 1 => prog(i - 1) < prog(i)
                        /\ i = Len(Phases) => prog(i) = 100
                   ELSE /\ DOMAIN its[i].v = {"command_result"}
                        /\ PyEq(its[i].v.command_result.v.command, RequestCommand)

\* the command c1 run to the end of the adapter's sequence
C18_Witness ==
    /\ adapter.name = "backend_execute_command"
    /\ adapter.state = "exhausted"
    /\ PyEq(RequestCommand, JStr("c1"))
    /\ Len(adapter.items) = 5

\* the adapter the declared type stands for
AdapterFor(ty) ==
    CASE ty = "ONE_TIME_QUERY" -> "backend_one_time_query"
      [] ty = "STREAM_SUBSCRIBE" -> "backend_stream_subscribe"
      [] ty = "EXECUTE_COMMAND" -> "backend_execute_command"
      [] OTHER -> "none"

AtMostOneCall ==
    /\ adapter.calls <= 1
    /\ (~WellFormed \/ Unrecognized) => (adapter.calls = 0 /\ adapter.name = "none")
    /\ adapter.calls = 1 =>
           /\ WellFormed
           /\ DeclaredType.t = "str"
           /\ adapter.name = AdapterFor(DeclaredType.v)
           /\ adapter.name # "none"
           /\ adapter.arg = RequestPayload
    /\ adapter.calls = 0 => adapter.name = "none"

\* C19: a request invokes at most one adapter, at most once: the one its type
\* stands for, with the request's payload as it came; none on a parse failure
\* or an unrecognized type; after a failure the adapter is not invoked again.
C19_OneAdapterOnce ==
    [][/\ AtMostOneCall'
       /\ adapter.state = "failed" => adapter' = adapter]_vars

\* a query whose adapter failed, pulled past the end of the sequence
C19_Witness ==
    /\ adapter.name = "backend_one_time_query"
    /\ adapter.state = "failed"
    /\ adapter.calls = 1
    /\ pc = "done"
    /\ stops >= 2

\* a JSON object whose header is present and is not a mapping
HeaderNotMapping ==
    /\ request_str.kind = "json"
    /\ request_str.value.t = "obj"
    /\ "header" \in DOMAIN request_str.value.v
    /\ request_str.value.v.header.t # "obj"

\* a recognized request whose payload is present and is not a mapping
PayloadNotMapping ==
    /\ WellFormed
    /\ DeclaredType.t = "str"
    /\ DeclaredType.v \in Recognized
    /\ RequestPayload.t # "obj"

\* C20: a header that is not a mapping fails before request_id is extracted:
\* one ERROR envelope with request_id "unknown", no adapter invoked.  A payload
\* that is not a mapping, under a recognized type, fails after it: one ERROR
\* envelope with the request's request_id.
C20_HeaderOrPayloadNotMapping ==
    /\ HeaderNotMapping =>
           /\ request_id.t = "unbound"
           /\ adapter = NoAdapter
           /\ Len(out) <= 1
           /\ pc \in {"after_143", "done"} => Len(out) = 1
           /\ Len(out) = 1 =>
                  /\ Status(1) = "ERROR"
                  /\ PyEq(Header(1).request_id, JStr("unknown"))
    /\ PayloadNotMapping =>
           /\ Len(out) <= 1
           /\ pc \in {"after_143", "done"} => Len(out) = 1
           /\ pc \in {"start", "after_143", "done", "closed"}
           /\ Len(out) = 1 =>
                  /\ Status(1) = "ERROR"
                  /\ EchoesRequestId(Header(1).request_id)
                  /\ PyEq(Header(1).request_id, request_id)

\* a query with a null header, answered and pulled to exhaustion
C20_Witness ==
    /\ HeaderNotMapping
    /\ DeclaredType = JStr("ONE_TIME_QUERY")
    /\ pc = "done"
    /\ Len(out) = 1

====
